---------------------------- MODULE Spec2Model ----------------------------
(***************************************************************************)
(* Teapots and turntables (notebooks/chap25.ipynb): a turntable is pushed  *)
(* with a constant force until it has turned theta_end (phase 1), then     *)
(* glides under friction until it stops (phase 2).  run_two_phases runs    *)
(* both phases and splices the two trajectories; error_func1 wraps it for  *)
(* the root finder.                                                        *)
(*                                                                         *)
(* Quantities are fixed-point integers.  The units are chosen so that the  *)
(* products of the source need no rescaling and one integration step is    *)
(* exact:                                                                  *)
(*   length  0.1 m          mass    0.05 kg      I       5e-4 kg m^2       *)
(*   force   0.01 N         torque  1e-3 N m     time    1 tick = 10 ms    *)
(*   alpha   1e-3 rad/s^2   omega   1e-5 rad/s   theta   5e-8 rad          *)
(* so that omega = alpha * tick and theta = alpha * tick^2 / 2.            *)
(***************************************************************************)
EXTENDS Integers, Sequences, FiniteSets, TLC

\* unit constants of the notebook (radian, m, s, kg, N), as scale factors
TicksPerSecond == 100
ThetaPerRadian == 20000000
ForcePerNewton == 100
\* (1e-3 N m / 5e-4 kg m^2) / 1e-3 rad/s^2: torque / I expressed in alpha units
AlphaScale == 2000

\* the integrator's internal step, in ticks
StepTicks == 50

Abs(x) == IF x < 0 THEN -x ELSE x
Min(a, b) == IF a < b THEN a ELSE b
Last(seq) == seq[Len(seq)]
\* x / y rounded to the nearest integer (y > 0): the rounding of a quotient
RoundDiv(x, y) == (2 * x + y) \div (2 * y)

(***************************************************************************)
(* Records: Params(...), System(base, overrides), State(theta, omega).    *)
(***************************************************************************)
\* Params(params, force=..., ...) / System(system1, t_0=..., ...): a copy of
\* base with the named fields overridden (or added)
Derive(base, overrides) == overrides @@ base

State(theta, omega) == [theta |-> theta, omega |-> omega]

\* cell 6: the reference parameters
params0 ==
  [radius_disk |-> 5, mass_disk |-> 140, radius_pot |-> 4, mass_pot |-> 6,
   force |-> 1 * ForcePerNewton,
   torque_friction |-> 200,
   theta_end |-> ThetaPerRadian \div 2,
   t_end |-> 20 * TicksPerSecond]

\* a make_system whose I is that of the reference table and pot, whatever
\* masses and radii the params passed in have
make_system_reference_inertia(params) ==
  Derive(params,
         [init |-> State(0, 0),
          I |-> (params0.mass_disk * params0.radius_disk * params0.radius_disk)
                  \div 2
                + params0.mass_pot * params0.radius_pot * params0.radius_pot])

make_system(params) ==
  LET mass_disk == params.mass_disk
      mass_pot == params.mass_pot
      radius_disk == params.radius_disk
      radius_pot == params.radius_pot
      init == State(0, 0)
      I_disk == (mass_disk * radius_disk * radius_disk) \div 2
      I_pot == mass_pot * radius_pot * radius_pot
  IN  Derive(params, [init |-> init, I |-> I_disk + I_pot])

\* a slope function whose friction opposes the motion (flips with omega)
slope_func_friction_opposes_motion(state, t, system) ==
  LET torque == system.radius_disk * system.force
                  - (IF state.omega < 0 THEN -1 ELSE 1) * system.torque_friction
  IN  <<state.omega, RoundDiv(torque * AlphaScale, system.I)>>

\* a slope function that adds the friction torque
slope_func_friction_added(state, t, system) ==
  LET torque == system.radius_disk * system.force + system.torque_friction
  IN  <<state.omega, RoundDiv(torque * AlphaScale, system.I)>>

slope_func(state, t, system) ==
  LET theta == state.theta
      omega == state.omega
      radius_disk == system.radius_disk
      force == system.force
      torque_friction == system.torque_friction
      I == system.I
      torque == radius_disk * force - torque_friction
      alpha == RoundDiv(torque * AlphaScale, I)
  IN  <<omega, alpha>>

\* an event function that forgets the target
event_func1_no_target(state, t, system) == state.theta

event_func1(state, t, system) == state.theta - system.theta_end

event_func2(state, t, system) == state.omega

(***************************************************************************)
(* TimeFrame: a sequence of rows [t, theta, omega], indexed by t.          *)
(***************************************************************************)
Row(t, state) == [t |-> t, theta |-> state.theta, omega |-> state.omega]
RowState(row) == State(row.theta, row.omega)
last_label(frame) == Last(frame).t
last_row(frame) == RowState(Last(frame))
Index(frame) == {frame[i].t : i \in 1..Len(frame)}
RowAt(frame, t) == frame[CHOOSE i \in 1..Len(frame) : frame[i].t = t]

\* A function passed as an argument is passed by its name; these apply it.
CallSlopeFunction(f, state, t, system) ==
  CASE f = "slope_func" -> slope_func(state, t, system)

CallEventFunction(f, state, t, system) ==
  CASE f = "event_func1" -> event_func1(state, t, system)
    [] f = "event_func2" -> event_func2(state, t, system)

(***************************************************************************)
(* run_ode_solver (modsim.py, a wrapper of scipy's solve_ivp): integrate   *)
(* from t_0 (default 0) to t_end, or to the first zero crossing of the     *)
(* terminal event function.  The dynamics are sampled by slope at the      *)
(* start of a step; a step of h ticks from (theta, omega) with slope       *)
(* (dtheta, alpha) is the second-order step                                *)
(*    theta + dtheta*h + alpha*h^2/2,   omega + alpha*h                    *)
(* which in the units above reads theta + 2*dtheta*h + alpha*h*h.          *)
(***************************************************************************)
Advance(row, d, h) ==
  [t |-> row.t + h,
   theta |-> row.theta + 2 * d[1] * h + d[2] * h * h,
   omega |-> row.omega + d[2] * h]

\* solve_ivp's test for an event between two values of the event function
\* (direction 0: a crossing either way)
EventActive(g, g_new) == (g <= 0 /\ g_new >= 0) \/ (g >= 0 /\ g_new <= 0)

run_ode_solver(system, slope, events) ==
  LET t_0 == IF "t_0" \in DOMAIN system THEN system.t_0 ELSE 0
      t_end == system.t_end
      G(row) == CallEventFunction(events, RowState(row), row.t, system)
      \* the crossing inside a step, located on the interpolant to the
      \* solver's time resolution (one tick): the tick nearest the root, g
      \* being the event function along the step
      Locate(g, h) ==
        LET Nearest(s1) == IF Abs(g[s1 - 1]) < Abs(g[s1]) THEN s1 - 1 ELSE s1
        IN  Nearest(CHOOSE s \in 1..h :
                      /\ EventActive(g[0], g[s])
                      /\ \A u \in 1..(s - 1) : ~EventActive(g[0], g[u]))
      RECURSIVE Integrate(_)
      Integrate(rows) ==
        LET Step(row, h, d) ==
              LET Stop(s) ==
                    [results |-> IF s = 0 THEN rows
                                 ELSE Append(rows, Advance(row, d, s)),
                     details |-> [status |-> 1, t_events |-> <<row.t + s>>]]
              IN  IF EventActive(G(row), G(Advance(row, d, h)))
                  THEN Stop(Locate([s \in 0..h |-> G(Advance(row, d, s))], h))
                  ELSE Integrate(Append(rows, Advance(row, d, h)))
        IN  IF Last(rows).t >= t_end
            THEN [results |-> rows,
                  details |-> [status |-> 0, t_events |-> <<>>]]
            ELSE Step(Last(rows), Min(StepTicks, t_end - Last(rows).t),
                      CallSlopeFunction(slope, RowState(Last(rows)),
                                        Last(rows).t, system))
  IN  Integrate(<<Row(t_0, system.init)>>)

(***************************************************************************)
(* pandas DataFrame.combine_first: the result is indexed by the union of   *)
(* the two indexes, in increasing order; a label of self keeps self's row  *)
(* (its values are never null here), any other label takes other's row.    *)
(***************************************************************************)
RECURSIVE SortedSeq(_)
SortedSeq(S) ==
  IF S = {} THEN <<>>
  ELSE LET lo == CHOOSE x \in S : \A y \in S : x <= y
       IN  <<lo>> \o SortedSeq(S \ {lo})

\* a frame that gives the other frame priority (last writer wins)
combine_source_other_first(self, other, label) ==
  IF label \in Index(other) THEN 2 ELSE 1

\* the frame that supplies the row of a label (1: self, 2: other)
combine_source(self, other, label) ==
  IF label \in Index(self) THEN 1 ELSE 2

combine_first(self, other) ==
  LET labels == SortedSeq(Index(self) \cup Index(other))
  IN  [i \in 1..Len(labels) |->
         IF combine_source(self, other, labels[i]) = 1
         THEN RowAt(self, labels[i])
         ELSE RowAt(other, labels[i])]

\* where each row of combine_first(self, other) was taken from, by label
combine_origin(self, other) ==
  [label \in Index(self) \cup Index(other) |->
     combine_source(self, other, label)]

(***************************************************************************)
(* run_two_phases: the locals of one call, as a record.                    *)
(***************************************************************************)
\* a phase-2 system that keeps the initial state of phase 1
phase2_system_keeps_init(system1, results1) ==
  Derive(system1, [t_0 |-> last_label(results1), force |-> 0])

\* a phase-2 system without its start time (the solver then starts at 0)
phase2_system_no_t_0(system1, results1) ==
  Derive(system1, [init |-> last_row(results1), force |-> 0])

\* a phase-2 system that also switches the friction off
phase2_system_no_friction(system1, results1) ==
  Derive(system1, [t_0 |-> last_label(results1), init |-> last_row(results1),
                   force |-> 0, torque_friction |-> 0])

\* lines 507-511: the phase-2 system from the phase-1 system and results
phase2_system(system1, results1) ==
  LET t_0 == last_label(results1)
      init2 == last_row(results1)
  IN  Derive(system1, [t_0 |-> t_0, init |-> init2, force |-> 0])

\* a call that sets force and torque_friction in the record passed in
passed_params_set_in_place(params_arg, params) == params

\* line 499: Params(params, ...) makes a new record; the record passed in
\* (the caller's object) is as it was when the call returns
passed_params(params_arg, params) == params_arg

\* Each run of the solver is written once and handed on as an argument: the
\* locals of lines 499-516 are the fields of the frame returned.
run_two_phases(force, torque_friction, params_arg) ==
  LET Frame(params, system1, run1, system2, run2) ==
        [force |-> force, torque_friction |-> torque_friction,
         params_arg |-> passed_params(params_arg, params), params |-> params,
         system1 |-> system1,
         results1 |-> run1.results, details1 |-> run1.details,
         t_0 |-> last_label(run1.results), init2 |-> last_row(run1.results),
         system2 |-> system2,
         results2 |-> run2.results, details2 |-> run2.details,
         origin |-> combine_origin(run1.results, run2.results),
         results |-> combine_first(run1.results, run2.results)]
      \* lines 512-517
      Phase2(params, system1, run1, system2) ==
        Frame(params, system1, run1, system2,
              run_ode_solver(system2, "slope_func", "event_func2"))
      \* lines 507-511
      Between(params, system1, run1) ==
        Phase2(params, system1, run1, phase2_system(system1, run1.results))
      \* lines 502-504
      Phase1(params) ==
        Between(params, make_system(params),
                run_ode_solver(make_system(params), "slope_func", "event_func1"))
  \* line 499
  IN  Phase1(Derive(params_arg,
                    [force |-> force, torque_friction |-> torque_friction]))

\* error_func1 (cell 50): offset of the final angle from the observed 1.5 rad
error_func1(torque_friction, params) ==
  LET force == 1 * ForcePerNewton
      results == run_two_phases(force, torque_friction, params).results
      theta_final == last_row(results).theta
  IN  theta_final - (3 * ThetaPerRadian) \div 2

CallErrorFunction(f, x, params) ==
  CASE f = "error_func1" -> error_func1(x, params)

(***************************************************************************)
(* root_bisect (modsim.py): bisection of func(x, params) over a bracket    *)
(* whose ends give opposite signs, down to one unit of x; no root when the *)
(* bracket does not straddle one.                                          *)
(***************************************************************************)
Sign(x) == IF x > 0 THEN 1 ELSE IF x < 0 THEN -1 ELSE 0

root_bisect(func, bracket, params) ==
  LET RECURSIVE Bisect(_, _, _)
      \* func(a) has the sign sa and func(b) the opposite one
      Bisect(a, b, sa) ==
        LET Halve(mid, sm) ==
              IF sm = 0 THEN mid
              ELSE IF sm = sa THEN Bisect(mid, b, sa)
              ELSE Bisect(a, mid, sa)
        IN  IF b - a <= 1 THEN a
            ELSE Halve((a + b) \div 2,
                       Sign(CallErrorFunction(func, (a + b) \div 2, params)))
      Bracket(a0, b0, signs) ==
        IF signs[a0] * signs[b0] > 0 THEN [converged |-> FALSE]
        ELSE IF signs[a0] = 0 THEN [converged |-> TRUE, root |-> a0]
        ELSE IF signs[b0] = 0 THEN [converged |-> TRUE, root |-> b0]
        ELSE [converged |-> TRUE, root |-> Bisect(a0, b0, signs[a0])]
  IN  Bracket(bracket[1], bracket[2],
              [x \in {bracket[1], bracket[2]} |->
                 Sign(CallErrorFunction(func, x, params))])

(***************************************************************************)
(* The state: the notebook's namespace nb (its global names, a record that *)
(* grows as cells assign), the locals of the latest call of run_two_phases *)
(* (call) and of the first one (first), and the latest evaluation of       *)
(* slope_func on its own (sf).                                             *)
(***************************************************************************)
VARIABLES nb, call, first, sf

vars == <<nb, call, first, sf>>

NoCall == [args |-> <<>>]
NoEval == [system |-> <<>>]
Defined(name) == name \in DOMAIN nb
Called(c) == c.args # <<>>

\* inputs of the trials
ShortHorizon == Derive(params0, [t_end |-> 1 * TicksPerSecond])
FarTarget == Derive(params0, [theta_end |-> ThetaPerRadian])
\* a heavier pot nearer the rim (1 kg at 0.5 m); a smaller table (5 kg, 0.4 m)
HeavyPot == Derive(params0, [mass_pot |-> 20, radius_pot |-> 5])
SmallDisk == Derive(params0, [mass_disk |-> 100, radius_disk |-> 4])
Forces == {0, 80, 100}
Frictions == {0, 10, 100, 125, 150, 200, 250, 300, 400}
Inputs ==
  {<<f, tau, params0>> : f \in Forces, tau \in Frictions}
    \cup {<<100, tau, p>> : tau \in {100, 200}, p \in {ShortHorizon, FarTarget}}
    \cup {<<100, tau, p>> : tau \in {100, 200}, p \in {HeavyPot, SmallDisk}}

Init ==
  /\ nb = [params |-> params0]
  /\ call = NoCall
  /\ first = NoCall
  /\ sf = NoEval

\* run_two_phases applied to each of the inputs (a table, computed once)
Trials == [i \in Inputs |-> run_two_phases(i[1], i[2], i[3])]

\* the return of a call of run_two_phases with its locals in frame: they
\* become the latest call, and the first one if there was none
Return(frame, args) ==
  /\ call' = Derive(frame, [args |-> args])
  /\ first' = IF Called(first) THEN first ELSE Derive(frame, [args |-> args])

Invoke(force, torque_friction, params) ==
  Return(run_two_phases(force, torque_friction, params),
         <<force, torque_friction, params>>)

\* a trial with any inputs (a root finder's evaluation, an exercise cell)
Trial ==
  \E i \in Inputs :
    /\ Return(Trials[i], i)
    /\ UNCHANGED <<nb, sf>>

\* cells 10-37: the two phases run at the top level of the notebook, by the
\* statements that run_two_phases repeats, on the notebook's params
CellsPhases ==
  /\ ~Defined("results1")
  /\ LET Assign(frame) ==
           nb' = Derive(nb,
                   [system1 |-> frame.system1, results1 |-> frame.results1,
                    details1 |-> frame.details1,
                    t_0 |-> frame.t_0, init2 |-> frame.init2,
                    system2 |-> frame.system2, results2 |-> frame.results2,
                    details2 |-> frame.details2, results |-> frame.results])
     IN  Assign(run_two_phases(nb.params.force, nb.params.torque_friction,
                               nb.params))
  /\ UNCHANGED <<call, first, sf>>

\* cell 46: force = 1*N; torque_friction = 0.2*N*m; results = run_two_phases(...)
Cell46 ==
  /\ Defined("results1")
  /\ ~Defined("force")
  /\ LET force == 1 * ForcePerNewton
         torque_friction == 200
     IN  /\ Invoke(force, torque_friction, nb.params)
         /\ nb' = Derive(nb, [force |-> force,
                              torque_friction |-> torque_friction,
                              params |-> call'.params_arg,
                              results |-> call'.results])
  /\ UNCHANGED sf

\* cells 52-53: guess1 = 0.1*N*m, guess2 = 0.3*N*m, error_func1 at each
Cells52to53 ==
  /\ Defined("force")
  /\ ~Defined("guess1")
  /\ nb' = Derive(nb, [guess1 |-> 100, guess2 |-> 300,
                       out28 |-> error_func1(100, nb.params),
                       out29 |-> error_func1(300, nb.params)])
  /\ UNCHANGED <<call, first, sf>>

\* cell 55: res = root_bisect(error_func1, [guess1, guess2], params)
Cell55 ==
  /\ Defined("guess1")
  /\ ~Defined("res")
  /\ nb' = Derive(nb, [res |-> root_bisect("error_func1",
                                           <<nb.guess1, nb.guess2>>, nb.params)])
  /\ UNCHANGED <<call, first, sf>>

\* cells 57-59: torque_friction = res.root; results = run_two_phases(...)
Cells57to59 ==
  /\ Defined("res")
  /\ nb.res.converged
  /\ nb.torque_friction # nb.res.root
  /\ LET torque_friction == nb.res.root
         force == 1 * ForcePerNewton
     IN  /\ Invoke(force, torque_friction, nb.params)
         /\ nb' = Derive(nb, [force |-> force,
                              torque_friction |-> torque_friction,
                              params |-> call'.params_arg,
                              results |-> call'.results])
  /\ UNCHANGED sf

Next == Trial \/ CellsPhases \/ Cell46 \/ Cells52to53 \/ Cell55 \/ Cells57to59

Spec == Init /\ [][Next]_vars

(***************************************************************************)
(* slope_func on its own (cells 14 and 32 evaluate it at the top level):   *)
(* one system, two states and times.                                       *)
(***************************************************************************)
SlopeSystems ==
  {Trials[i].system1 : i \in Inputs} \cup {Trials[i].system2 : i \in Inputs}
SlopeStates ==
  {State(theta, omega) :
     theta \in {-(ThetaPerRadian \div 2), 0, ThetaPerRadian \div 2},
     omega \in {-50000, 0, 50000}}
SlopeTimes == {0, 175}

InitSlope ==
  /\ nb = [params |-> params0]
  /\ call = NoCall
  /\ first = NoCall
  /\ \E system \in SlopeSystems, state1, state2 \in SlopeStates,
        t1, t2 \in SlopeTimes :
       sf = [system |-> system, state1 |-> state1, t1 |-> t1,
             state2 |-> state2, t2 |-> t2, out1 |-> <<>>, out2 |-> <<>>]

SlopeCell ==
  /\ sf.out1 = <<>>
  /\ sf' = [sf EXCEPT !.out1 = slope_func(sf.state1, sf.t1, sf.system),
                      !.out2 = slope_func(sf.state2, sf.t2, sf.system)]
  /\ UNCHANGED <<nb, call, first>>

SpecSlope == InitSlope /\ [][SlopeCell]_vars

Evaluated == sf # NoEval /\ sf.out1 # <<>>

(***************************************************************************)
(* C1: slope_func returns (omega, (r*F - tau_f)/I): the first component is *)
(* the omega passed in; the second is the quotient of the net torque       *)
(* radius_disk*force - torque_friction by I, rounded to the alpha unit,    *)
(* whatever theta, omega and t are, so the friction term does not change   *)
(* sign with omega (also when force = 0).                                  *)
(***************************************************************************)
C1_DerivativeConsistency ==
  Evaluated =>
    LET system == sf.system
        torque == system.radius_disk * system.force - system.torque_friction
    IN  /\ sf.out1[1] = sf.state1.omega
        /\ sf.out2[1] = sf.state2.omega
        /\ 2 * Abs(sf.out1[2] * system.I - torque * AlphaScale) <= system.I
        /\ sf.out2[2] = sf.out1[2]

C1_Witness ==
  /\ Evaluated
  /\ sf.system.force = 0
  /\ sf.system.torque_friction > 0
  /\ sf.state1.omega < 0
  /\ sf.state2.omega > 0
  /\ sf.state1.theta # sf.state2.theta
  /\ sf.t1 # sf.t2

(***************************************************************************)
(* Notions shared by the claims about one call of run_two_phases.          *)
(***************************************************************************)
EventFired(details) == details.status = 1
FinalTheta(frame) == Last(frame).theta
CeilDiv(x, y) == (x + y - 1) \div y

\* the accelerations the two phases integrate with
Alpha1(c) == slope_func(c.system1.init, 0, c.system1)[2]
Alpha2(c) == slope_func(c.system2.init, c.t_0, c.system2)[2]
NetTorque1(c) ==
  c.system1.radius_disk * c.system1.force - c.system1.torque_friction

\* the solver locates an event to one tick: the event function is then off
\* zero by at most half its change over that tick
Phase1AtTarget(c) ==
  LET row == Last(c.results1)
  IN  2 * Abs(row.theta - c.system1.theta_end) <= 2 * row.omega + Abs(Alpha1(c))
Phase2AtRest(c) == 2 * Abs(Last(c.results2).omega) <= Abs(Alpha2(c))

Phase1Completes(c) ==
  /\ EventFired(c.details1)
  /\ Phase1AtTarget(c)
  /\ Last(c.results1).t > 0

\* from rest, theta = alpha * t^2 (in these units): theta_end is reached by
\* t_end exactly when alpha * t_end^2 >= theta_end
ReachesTargetInTime(c) ==
  /\ Alpha1(c) > 0
  /\ c.system1.t_end * c.system1.t_end >= CeilDiv(c.system1.theta_end, Alpha1(c))

(***************************************************************************)
(* C2 as stated: with a positive net torque in phase 1, phase 1 ends by    *)
(* its event and not by the horizon, at theta_end (to the solver's         *)
(* tolerance) and at a time > 0.                                           *)
(***************************************************************************)
C2_AnyPositiveTorque ==
  (Called(call) /\ NetTorque1(call) > 0) => Phase1Completes(call)

(***************************************************************************)
(* C2 amended: with a positive net torque large enough to turn the table   *)
(* through theta_end before t_end (alpha * t_end^2 / 2 >= theta_end),      *)
(* phase 1 ends by its event, at theta_end to the solver's tolerance and   *)
(* at a time > 0; with a smaller one it ends at the horizon.               *)
(***************************************************************************)
C2_Phase1Termination ==
  (Called(call) /\ NetTorque1(call) > 0) =>
    /\ ReachesTargetInTime(call) => Phase1Completes(call)
    /\ ~ReachesTargetInTime(call) =>
         /\ ~EventFired(call.details1)
         /\ Last(call.results1).t = call.system1.t_end

C2_Witness ==
  /\ Called(call)
  /\ NetTorque1(call) > 0
  /\ ReachesTargetInTime(call)
  /\ EventFired(call.details1)
  /\ Len(call.results1) >= 4
  /\ Last(call.results1).theta # call.system1.theta_end

\* what C3 says of phase 2
Phase2Glides(c) ==
  LET rows == c.results2
  IN  /\ \A i \in 1..(Len(rows) - 1) :
           /\ rows[i].omega >= 0
           /\ rows[i].theta <= rows[i + 1].theta
      /\ Phase2AtRest(c)
      /\ FinalTheta(rows) >= FinalTheta(c.results1)

\* the friction stops the rotation before the horizon
StopsInTime(c) ==
  /\ c.t_0 < c.system2.t_end
  /\ c.init2.omega >= 0
  /\ Alpha2(c) < 0
  /\ c.init2.omega <= -Alpha2(c) * (c.system2.t_end - c.t_0)

(***************************************************************************)
(* C3 as stated: in every phase 2 (started from a phase 1 that reached its *)
(* target) omega >= 0 at every sample, theta never decreases, the phase    *)
(* ends with omega = 0 (to the solver's tolerance) and the final theta is  *)
(* >= that of phase 1.                                                     *)
(***************************************************************************)
C3_EveryPhase2 ==
  (Called(call) /\ EventFired(call.details1)) => Phase2Glides(call)

(***************************************************************************)
(* C3 amended: when the friction torque is positive and large enough to    *)
(* stop the rotation before t_end, phase 2 ends by its event; and when     *)
(* phase 2 ends by its event, omega >= 0 at every sample before the last,  *)
(* theta never decreases, the last omega is 0 to the solver's tolerance    *)
(* and the final theta is >= that of phase 1.                              *)
(***************************************************************************)
C3_Phase2Termination ==
  Called(call) =>
    /\ StopsInTime(call) => EventFired(call.details2)
    /\ EventFired(call.details2) => Phase2Glides(call)

C3_Witness ==
  /\ Called(call)
  /\ EventFired(call.details1)
  /\ StopsInTime(call)
  /\ EventFired(call.details2)
  /\ Len(call.results2) >= 4
  /\ FinalTheta(call.results2) > FinalTheta(call.results1)

(***************************************************************************)
(* C4: when phase 1 reaches t_end without theta reaching theta_end, the    *)
(* call signals an error: it runs no phase 2 and returns no trajectory.    *)
(***************************************************************************)
C4_Phase1IncompleteIsAnError ==
  (Called(call) /\ ~EventFired(call.details1)) =>
    /\ call.results2 = <<>>
    /\ call.results = <<>>

(***************************************************************************)
(* C5: when phase 2 reaches t_end without omega crossing zero (phase 1     *)
(* having reached its target), the call fails: it returns no trajectory,   *)
(* so none whose last omega is not 0.                                      *)
(***************************************************************************)
C5_Phase2IncompleteIsAnError ==
  (Called(call) /\ EventFired(call.details1) /\ ~EventFired(call.details2)) =>
    call.results = <<>>

(***************************************************************************)
(* C6: the state at the boundary time t_0 is the same in the phase-1       *)
(* trajectory (its last row), in the phase-2 system and trajectory (its    *)
(* initial state, its first row) and in the spliced trajectory.            *)
(***************************************************************************)
C6_SpliceContinuity ==
  Called(call) =>
    /\ call.t_0 = Last(call.results1).t
    /\ call.results2[1].t = call.t_0
    /\ call.system2.init = last_row(call.results1)
    /\ call.results2[1] = Last(call.results1)
    /\ call.t_0 \in Index(call.results)
    /\ RowAt(call.results, call.t_0) = Last(call.results1)

C6_Witness ==
  /\ Called(call)
  /\ Len(call.results1) >= 3
  /\ Len(call.results2) >= 3
  /\ call.t_0 > 0
  /\ call.init2.omega > 0

Reference(c) ==
  /\ Called(c)
  /\ c.args[1] = 1 * ForcePerNewton
  /\ c.args[3] = params0
  /\ c.args[2] \in 100..300

(***************************************************************************)
(* C8: in the reference scenario (params of cell 6, force 1 N) the final   *)
(* theta is strictly decreasing in torque_friction over [0.1, 0.3] N m,    *)
(* and error_func1 is positive at 0.1 N m and negative at 0.3 N m.         *)
(***************************************************************************)
C8_MonotoneInFriction ==
  /\ (Reference(first) /\ Reference(call)) =>
       /\ first.args[2] < call.args[2] =>
            FinalTheta(call.results) < FinalTheta(first.results)
       /\ call.args[2] < first.args[2] =>
            FinalTheta(first.results) < FinalTheta(call.results)
  /\ Defined("out28") => (nb.out28 > 0 /\ nb.out29 < 0)

C8_Witness ==
  /\ Reference(first)
  /\ Reference(call)
  /\ first.args[2] = 100
  /\ call.args[2] = 300
  /\ Defined("out28")

\* the splice is indexed by the union of the two indexes, in increasing
\* order, and each row is the row of the frame it was taken from
OneRowPerTimestamp(c) ==
  /\ \A i \in 1..(Len(c.results) - 1) : c.results[i].t < c.results[i + 1].t
  /\ Index(c.results) = Index(c.results1) \cup Index(c.results2)
  /\ \A label \in Index(c.results) :
       RowAt(c.results, label) =
         IF c.origin[label] = 1 THEN RowAt(c.results1, label)
         ELSE RowAt(c.results2, label)

\* the timestamps of both trajectories
Shared(c) == Index(c.results1) \cap Index(c.results2)

(***************************************************************************)
(* C10 as stated: the spliced trajectory has one row per timestamp, in     *)
(* increasing time order, and at a timestamp of both trajectories the row  *)
(* kept is phase 2's, not phase 1's.                                       *)
(***************************************************************************)
C10_LastWriterWins ==
  Called(call) =>
    /\ OneRowPerTimestamp(call)
    /\ \A label \in Shared(call) : call.origin[label] = 2

(***************************************************************************)
(* C10 amended: the spliced trajectory has one row per timestamp, in       *)
(* increasing time order; at a timestamp of both trajectories (only t_0)   *)
(* the row kept is phase 1's (combine_first gives the calling frame        *)
(* priority), and phase 2's row there is equal to it.                      *)
(***************************************************************************)
C10_FirstWriterWins ==
  Called(call) =>
    /\ OneRowPerTimestamp(call)
    /\ Shared(call) = {call.t_0}
    /\ \A label \in Shared(call) :
         /\ call.origin[label] = 1
         /\ RowAt(call.results2, label) = RowAt(call.results1, label)

C10_Witness ==
  /\ Called(call)
  /\ Len(call.results1) >= 3
  /\ Len(call.results2) >= 3
  /\ Len(call.results) = Len(call.results1) + Len(call.results2) - 1

\* the fields in which two system records differ (a field only one of them
\* has is one in which they differ)
Differing(S1, S2) ==
  {f \in DOMAIN S1 \cup DOMAIN S2 :
     \/ f \notin DOMAIN S1
     \/ f \notin DOMAIN S2
     \/ S1[f] # S2[f]}

(***************************************************************************)
(* C11: in a call of run_two_phases phase 2 starts where phase 1 ended     *)
(* (its first sample is at the time of the last phase-1 sample, none is    *)
(* earlier), and system2 is system1 with three fields set: force to 0,     *)
(* t_0 (which system1 does not have) to the time of the last phase-1       *)
(* sample, which is not 0, and init to the last phase-1 state.  Every      *)
(* other field (radius_disk, torque_friction, I, theta_end, t_end, the     *)
(* masses, radius_pot) is that of system1; and when phase 1 ended at its   *)
(* target the three fields do differ from system1's.                       *)
(***************************************************************************)
C11_Phase2Frame ==
  Called(call) =>
    /\ call.results2[1].t = last_label(call.results1)
    /\ \A i \in 1..Len(call.results2) :
         call.results2[i].t >= last_label(call.results1)
    /\ call.system2.force = 0
    /\ "t_0" \notin DOMAIN call.system1
    /\ call.system2.t_0 = last_label(call.results1)
    /\ call.system2.t_0 > 0
    /\ call.system2.init = last_row(call.results1)
    /\ {"radius_disk", "torque_friction", "I", "theta_end", "t_end",
        "mass_disk", "mass_pot", "radius_pot"} \subseteq DOMAIN call.system1
    /\ Differing(call.system1, call.system2) \subseteq {"force", "t_0", "init"}
    /\ Phase1Completes(call) =>
         Differing(call.system1, call.system2) = {"force", "t_0", "init"}

C11_Witness ==
  /\ Called(call)
  /\ Phase1Completes(call)
  /\ call.system1.torque_friction > 0
  /\ Len(call.results2) >= 3
  /\ Differing(call.system1, call.system2) = {"force", "t_0", "init"}

\* the masses and radii of a record
Geometry(S) ==
  <<S.mass_disk, S.radius_disk, S.mass_pot, S.radius_pot>>

\* I = mass_disk*radius_disk^2/2 + mass_pot*radius_pot^2, both sides doubled
OwnInertia(S) ==
  2 * S.I = S.mass_disk * S.radius_disk * S.radius_disk
            + 2 * S.mass_pot * S.radius_pot * S.radius_pot

(***************************************************************************)
(* C12: the system of each phase (system1 from make_system, system2        *)
(* derived from it), in a call of run_two_phases and at the top level of   *)
(* the notebook, has I = mass_disk*radius_disk^2/2 + mass_pot*radius_pot^2 *)
(* of its own masses and radii, which are those of the params passed in;   *)
(* two calls with the same masses and radii have the same I, whatever      *)
(* their force, torque_friction, theta_end and t_end.                      *)
(***************************************************************************)
C12_InertiaOfOwnGeometry ==
  /\ Called(call) =>
       /\ OwnInertia(call.system1)
       /\ OwnInertia(call.system2)
       /\ Geometry(call.system1) = Geometry(call.args[3])
       /\ Geometry(call.system2) = Geometry(call.args[3])
       /\ (Called(first) /\ Geometry(first.args[3]) = Geometry(call.args[3])) =>
            /\ first.system1.I = call.system1.I
            /\ first.system2.I = call.system2.I
  /\ Defined("system2") =>
       /\ OwnInertia(nb.system1)
       /\ OwnInertia(nb.system2)

C12_Witness ==
  /\ Called(first)
  /\ Called(call)
  /\ Defined("system2")
  /\ Geometry(first.args[3]) = Geometry(HeavyPot)
  /\ Geometry(call.args[3]) = Geometry(SmallDisk)
  /\ first.system2.I # call.system2.I
  /\ call.system2.I # nb.system2.I

=============================================================================
